---- MODULE Spec2Model ----
(***************************************************************************)
(* Market-making robot (robot_v2.run_robot) with its hedging sub-engine,   *)
(* the order helpers of market_prices.py and the trade notifier.           *)
(*                                                                         *)
(* Prices are whole cents (the venue tick is 0.01), sizes and positions    *)
(* are whole shares, the clock is in seconds.  On whole-cent prices        *)
(* round(p, 2) only removes binary floating point noise, so a price is     *)
(* represented by its number of cents.                                     *)
(***************************************************************************)
EXTENDS Integers, Sequences, FiniteSets, TLC

(* ---------------------------------------------------------------------- *)
(* Program constants                                                       *)
(* ---------------------------------------------------------------------- *)

\* "bid"/"ask" of an empty book side (trading_helpers.get_bid_ask_spread)
None == -1

\* time.sleep(60) at the end of a cycle
SleepSecs == 60

\* lower price bound enforced by buyNo, upper price bound enforced by sellNo
PriceMin == 1
PriceMax == 99

(* ---------------------------------------------------------------------- *)
(* Bounds of the model                                                     *)
(* ---------------------------------------------------------------------- *)

\* t_work is drawn from {0, WorkStep, ..., MaxWorkSteps * WorkStep}
WorkStep == 35
MaxWorkSteps == 2
\* a venue read may take up to NetDelay seconds
NetDelay == 30
\* positions (shares) on the venue are drawn from 0..MaxPos
MaxPos == 3
\* external best bid of the "No" book, and the widest external spread
BaseBid == 40
MaxSpread == 6
\* trade identifiers 1..MaxTradeId, at most MaxTrades trades per read
MaxTradeId == 2
MaxTrades == 2
\* the venue rejects a placement when MaxOrders orders are already open
MaxOrders == 4
\* largest volume and min_amount on which the quote calculation is explored
MaxVolume == 4
MaxMinAmount == 3
\* min_amount of the runs of the loop
RunMinAmount == 2
\* buy_no / sell_no are explored on the offsets -MaxOffset..MaxOffset
MaxOffset == 3

Max(a, b) == IF a >= b THEN a ELSE b
Min(a, b) == IF a <= b THEN a ELSE b

\* str.upper() on the side strings that occur
Upper(s) ==
  IF s \in {"buy", "Buy"} THEN "BUY"
  ELSE IF s \in {"sell", "Sell"} THEN "SELL" ELSE s

VARIABLES
  \* ---- run_robot ----
  pc,             \* position in run_robot
  volume,         \* parameter volume (inventory ceiling)
  min_amount,     \* parameter min_amount
  end_ts,         \* deadline
  seen_ids,       \* identifiers of trades already notified
  no_pos,         \* "No" position read in this cycle
  best_bid,       \* best bid of "No" read in this cycle
  best_ask,       \* best ask of "No" read in this cycle
  distance_cents, \* quoting distance of this cycle
  desired,        \* desired quotes of this cycle
  open_orders,    \* open orders read in this cycle
  prices_ok,      \* every desired quote found
  place_i,        \* index of the next desired quote to place
  trades,         \* recent trades read in this cycle
  trade_i,        \* index of the next trade to look at
  \* ---- venue and clock ----
  now,            \* wall clock
  posNo, posYes,  \* balances held on the venue
  extBid, extAsk, \* best external bid/ask of the "No" book
  extYesAsk,      \* best external ask of the "Yes" book
  orders,         \* the account's open orders on the venue
  venueTrades,    \* identifiers of the trades the venue reports in this run
  otherOrders,    \* the account's open orders on another market
  config,         \* configuration items missing from the process environment
  \* ---- observation of the run (history) ----
  cycleStart,     \* clock value at which the current cycle began
  cycles,         \* number of cycles begun
  stage,          \* how far the current cycle got
  calls,          \* OrderPort calls of the reconciler in the current cycle
  hedgeCalls,     \* OrderPort calls of hedge_once in the current cycle
  hedgeReads,     \* venue reads of hedge_once in the current cycle
  hedgeSeen,      \* branches hedge_once has taken so far in this run
  caught,         \* step whose exception the handler caught last
  sendOk,         \* per trade id: number of send calls that returned
  sendRaised,     \* trade ids for which a send call raised
  reached,        \* per trade id: times the notifier looked at it (0, 1, 2+)
  lastMsg         \* the last trade summary handed to send_telegram_message

progVars == <<pc, volume, min_amount, end_ts, seen_ids, no_pos, best_bid,
              best_ask, distance_cents, desired, open_orders, prices_ok,
              place_i, trades, trade_i>>
venueVars == <<now, posNo, posYes, extBid, extAsk, extYesAsk, orders,
               venueTrades, otherOrders, config>>
histVars == <<cycleStart, cycles, stage, calls, hedgeCalls, hedgeReads,
              hedgeSeen, caught, sendOk, sendRaised, reached, lastMsg>>
vars == <<progVars, venueVars, histVars>>

TradeIds == 1..MaxTradeId

(* ---------------------------------------------------------------------- *)
(* The venue's books as the bot reads them                                 *)
(* ---------------------------------------------------------------------- *)

\* prices of the account's own resting orders of one side on one outcome
OwnPrices(ords, side, outcome) ==
  {ords[i].price : i \in {j \in DOMAIN ords :
       Upper(ords[j].side) = side /\ ords[j].outcome = outcome}}

SetMax(S) == CHOOSE x \in S : \A y \in S : y <= x
SetMin(S) == CHOOSE x \in S : \A y \in S : x <= y

\* best bid of the "No" book: external bids and the account's own BUY orders
BestBid(ords, eb) ==
  LET S == OwnPrices(ords, "BUY", "no") \cup (IF eb = None THEN {} ELSE {eb})
  IN IF S = {} THEN None ELSE SetMax(S)

\* best ask of the "No" book: external asks and the account's own SELL orders
BestAsk(ords, ea) ==
  LET S == OwnPrices(ords, "SELL", "no") \cup (IF ea = None THEN {} ELSE {ea})
  IN IF S = {} THEN None ELSE SetMin(S)

\* best ask of the "Yes" book (the bot never sells "Yes")
BestYesAsk(ords, ea) ==
  LET S == OwnPrices(ords, "SELL", "yes") \cup (IF ea = None THEN {} ELSE {ea})
  IN IF S = {} THEN None ELSE SetMin(S)

(* ---------------------------------------------------------------------- *)
(* QuoteCalculator (robot_v2.run_robot, lines 177-205)                     *)
(* ---------------------------------------------------------------------- *)

DistanceCentsNoStep(bid, ask) ==
  IF ask - bid > 1 THEN (ask - bid) \div 2 ELSE 1

DistanceCentsWide(bid, ask) ==
  IF ask - bid > 1 THEN (ask - bid) \div 2 + 2 ELSE 1

DistanceCentsHalfUp(bid, ask) ==
  IF ask - bid > 1 THEN (ask - bid + 1) \div 2 ELSE 1

\* distance_cents = 1; if spread > one tick: int(spread_cents / 2 + 1)
DistanceCents(bid, ask) ==
  IF ask - bid > 1 THEN (ask - bid) \div 2 + 1 ELSE 1

\* buy_price = round(best_ask - distance, 2)
BuyPrice(bid, ask) == ask - DistanceCents(bid, ask)

\* sell_price = round(best_bid + distance, 2)
SellPrice(bid, ask) == bid + DistanceCents(bid, ask)

BuyQuoteStrict(pos, vol, minAmt, price) ==
  IF pos < vol /\ vol - pos > minAmt
  THEN <<[side |-> "BUY", price |-> price, size |-> vol - pos]>>
  ELSE <<>>

\* if no_pos < volume: buy_size = volume - no_pos; appended if >= min_amount
BuyQuote(pos, vol, minAmt, price) ==
  IF pos < vol /\ vol - pos >= minAmt
  THEN <<[side |-> "BUY", price |-> price, size |-> vol - pos]>>
  ELSE <<>>

SellQuoteNoMin(pos, vol, minAmt, price) ==
  IF pos > 0
  THEN <<[side |-> "SELL", price |-> price, size |-> pos]>>
  ELSE <<>>

\* if no_pos > 0: sell_size = no_pos; appended if >= min_amount
SellQuote(pos, vol, minAmt, price) ==
  IF pos > 0 /\ pos >= minAmt
  THEN <<[side |-> "SELL", price |-> price, size |-> pos]>>
  ELSE <<>>

DesiredOnceTraded(pos, vol, minAmt, bid, ask) ==
  IF seen_ids = {}
  THEN BuyQuote(pos, vol, minAmt, BuyPrice(bid, ask))
         \o SellQuote(pos, vol, minAmt, SellPrice(bid, ask))
  ELSE <<>>

\* the list "desired": the BUY quote first, then the SELL quote
Desired(pos, vol, minAmt, bid, ask) ==
  BuyQuote(pos, vol, minAmt, BuyPrice(bid, ask))
    \o SellQuote(pos, vol, minAmt, SellPrice(bid, ask))


(* ---------------------------------------------------------------------- *)
(* OrderReconciler matching (robot_v2._has_order)                          *)
(* ---------------------------------------------------------------------- *)

HasOrderCaseSensitive(ords, side, price) ==
  \E i \in DOMAIN ords : ords[i].side = side /\ ords[i].price = price

HasOrderOnNo(ords, side, price) ==
  \E i \in DOMAIN ords :
     /\ Upper(ords[i].side) = Upper(side) /\ ords[i].price = price
     /\ ords[i].outcome = "no"

\* an order with the same upper-cased side and the same rounded price exists
HasOrder(ords, side, price) ==
  \E i \in DOMAIN ords :
     Upper(ords[i].side) = Upper(side) /\ ords[i].price = price

PricesOkNoExtras(des, ords) ==
  /\ \A i \in DOMAIN des : HasOrder(ords, des[i].side, des[i].price)
  /\ Len(ords) = Len(des)

\* prices_ok: the conjunction of "found" over the desired quotes
PricesOk(des, ords) ==
  \A i \in DOMAIN des : HasOrder(ords, des[i].side, des[i].price)

(* ---------------------------------------------------------------------- *)
(* Order helpers (market_prices.buyNo / sellNo)                            *)
(* ---------------------------------------------------------------------- *)

BuyNoPriceOneLower(ask, x) == Max(ask - x - 1, PriceMin)

\* price = best_ask - x/100, raised to 0.01 when below
BuyNoPrice(ask, x) == Max(ask - x, PriceMin)

\* price = best_bid + x/100, lowered to 0.99 when above
SellNoPrice(bid, x) == Min(bid + x, PriceMax)

\* price of a "Yes" buy (trading_helpers.buy_yes): market_prices.py holds no
\* buyYes, it is taken to be the counterpart of buyNo on the "Yes" book
BuyYesPrice(ask, x) == Max(ask - x, PriceMin)

\* the token identifiers of the market's two outcomes
TokenOf(outcome) == IF outcome = "no" THEN "tokNo" ELSE "tokYes"

\* an open order as get_open_orders returns it: outcome is the book it rests
\* on, token its tokenId / token_id field ("" when the venue sent none) and
\* tag its "outcome" field ("" when the venue sent none)
NewOrder(side, outcome, price, size) ==
  [side |-> side, outcome |-> outcome, price |-> price, size |-> size,
   token |-> TokenOf(outcome), tag |-> outcome]

(* ---------------------------------------------------------------------- *)
(* TradeNotifier (robot_v2.run_robot, lines 249-255)                       *)
(* ---------------------------------------------------------------------- *)

\* the trade the venue reports under identifier id: odd identifiers are
\* fills of the account's BUY orders, even ones fills of its sell orders
VenueTrade(id) ==
  [id |-> id, side |-> IF id % 2 = 1 THEN "BUY" ELSE "sell",
   size |-> RunMinAmount, price |-> BaseBid]

\* robot_v1._summarise_trade and robot_v2._summarise_trade:
\* action = "Sold" if side == "BUY" else "Bought"
SummariseTrade(trade) ==
  [action |-> IF Upper(trade.side) = "BUY" THEN "Sold" ELSE "Bought",
   size |-> trade.size, price |-> trade.price]

\* order_monitor._summarise_trade:
\* action = "Bought" if side == "BUY" else "Sold"
\* with size = float(size) / 1_000_000, printed with no decimals
MonitorSummariseTrade(trade) ==
  [action |-> IF Upper(trade.side) = "BUY" THEN "Bought" ELSE "Sold",
   size |-> (trade.size + 500000) \div 1000000, price |-> trade.price]

\* the summary the notifier 'by' produces for a trade, with that trade
Summary(by, trade) ==
  [by |-> by, trade |-> trade,
   text |-> IF by = "order_monitor" THEN MonitorSummariseTrade(trade)
            ELSE SummariseTrade(trade)]

\* no summary has been produced yet
NoMsg ==
  [by |-> "", trade |-> [id |-> 0, side |-> "", size |-> 0, price |-> 0],
   text |-> [action |-> "", size |-> 0, price |-> 0]]

SeenAfterSendForgets(seen, id) == seen

SeenAfterSendKeepsLast(seen, id) == {id}

\* seen_ids.add(trade_id)
SeenAfterSend(seen, id) == seen \cup {id}

(* ---------------------------------------------------------------------- *)
(* ControlLoop (robot_v2.run_robot, lines 152-160 and 257-260)             *)
(* ---------------------------------------------------------------------- *)

LoopCondInclusive(t, deadline) == t <= deadline

\* while time.time() < end_ts
LoopCond(t, deadline) == t < deadline

AfterRaisePropagates == "crashed"

\* "except Exception" logs and falls through to the time.sleep(60) below it
AfterRaise == "sleep"

(* ---------------------------------------------------------------------- *)
(* Initial states                                                          *)
(* ---------------------------------------------------------------------- *)

\* the lists of at most MaxTrades trades with identifiers in ids
TradeLists(ids) ==
  UNION {[1..n -> ids] : n \in 0..MaxTrades}

\* orders that may already rest on the account when the robot starts
InitOrders ==
  { <<>>,
    <<NewOrder("buy", "no", BaseBid, 1)>>,
    <<NewOrder("SELL", "no", BaseBid + MaxSpread, 1)>> }

ZeroCount == [id \in TradeIds |-> 0]

\* values of the locals and of the history before the first cycle
LocalsInit ==
  /\ no_pos = 0
  /\ best_bid = None
  /\ best_ask = None
  /\ distance_cents = 1
  /\ desired = <<>>
  /\ open_orders = <<>>
  /\ prices_ok = TRUE
  /\ place_i = 1
  /\ trades = <<>>
  /\ trade_i = 1

HistInit ==
  /\ cycleStart = 0
  /\ cycles = 0
  /\ stage = "none"
  /\ calls = <<>>
  /\ hedgeCalls = <<>>
  /\ hedgeReads = <<>>
  /\ hedgeSeen = {}
  /\ caught = "none"
  /\ sendOk = ZeroCount
  /\ sendRaised = {}
  /\ reached = ZeroCount
  /\ lastMsg = NoMsg

\* run_robot(market, t_work, volume=..., min_amount=...) is entered at now = 0:
\* end_ts = time.time() + t_work; seen_ids = set()
Entry ==
  /\ pc = "top"
  /\ volume = MaxVolume
  /\ min_amount = RunMinAmount
  /\ now = 0
  /\ end_ts \in {k * WorkStep : k \in 0..MaxWorkSteps}
  /\ seen_ids = {}
  /\ LocalsInit
  /\ HistInit

Init ==
  /\ Entry
  /\ posNo \in 0..MaxPos
  /\ posYes \in {0, MaxPos}
  /\ extBid \in {None, BaseBid}
  /\ extAsk \in {None, BaseBid + 1, BaseBid + MaxSpread}
  /\ extYesAsk \in {None, 100 - BaseBid}
  /\ orders \in InitOrders
  /\ venueTrades = {1}
  /\ otherOrders = <<>>
  /\ config = {}

\* few books and positions, every trade identifier: the venues on which the
\* progress of the loop and the notifier are checked
InitLive ==
  /\ Entry
  /\ posNo = RunMinAmount
  /\ posYes \in {0, MaxPos}
  /\ extBid \in {None, BaseBid}
  /\ extAsk = BaseBid + MaxSpread
  /\ extYesAsk = 100 - BaseBid
  /\ orders = <<>>
  /\ venueTrades = TradeIds
  /\ otherOrders = <<>>
  /\ config = {}

\* the quote calculation on every book and position: the state of run_robot
\* right after a book with both sides has been read
InitQuote ==
  /\ pc = "quote"
  /\ volume \in {MaxVolume - 1, MaxVolume}
  /\ min_amount \in 1..MaxMinAmount
  /\ now = 0
  /\ end_ts = WorkStep
  /\ seen_ids = {}
  /\ no_pos \in 0..(MaxVolume + 1)
  /\ best_bid \in PriceMin..PriceMax
  /\ best_ask \in PriceMin..PriceMax
  /\ distance_cents = 1
  /\ desired = <<>>
  /\ open_orders = <<>>
  /\ prices_ok = TRUE
  /\ place_i = 1
  /\ trades = <<>>
  /\ trade_i = 1
  /\ posNo = no_pos
  /\ posYes = 0
  /\ extBid = best_bid
  /\ extAsk = best_ask
  /\ extYesAsk = None
  /\ orders = <<>>
  /\ venueTrades = {}
  /\ otherOrders = <<>>
  /\ config = {}
  /\ cycleStart = 0
  /\ cycles = 1
  /\ stage = "begin"
  /\ calls = <<>>
  /\ hedgeCalls = <<>>
  /\ hedgeReads = <<>>
  /\ hedgeSeen = {}
  /\ caught = "none"
  /\ sendOk = ZeroCount
  /\ sendRaised = {}
  /\ reached = ZeroCount
  /\ lastMsg = NoMsg

\* positions on which hedge_once is explored
HedgePositions == 0..MaxPos \cup {10 * MaxPos}

\* an order resting on the account as the venue reports it
OpenOrder(side, outcome, token, tag, price) ==
  [side |-> side, outcome |-> outcome, price |-> price, size |-> 1,
   token |-> token, tag |-> tag]

\* the open orders on which hedge_once is explored: none, a BUY of either
\* outcome known by its token only or by its outcome field only, and a SELL
InitHedgeOrders ==
  { <<>>,
    <<OpenOrder("BUY", "no", "tokNo", "", BaseBid)>>,
    <<OpenOrder("buy", "no", "", "No", BaseBid)>>,
    <<OpenOrder("BUY", "yes", "tokYes", "", 100 - BaseBid - MaxSpread - 1)>>,
    <<OpenOrder("buy", "yes", "", "YES", 100 - BaseBid - MaxSpread - 1)>>,
    <<OpenOrder("SELL", "no", "tokNo", "no", BaseBid + MaxSpread)>> }

\* hedge_once about to be invoked (robot_v2.py line 247) on every position,
\* every pair of asks and every kind of open order
InitHedge ==
  /\ pc = "hedge"
  /\ volume = MaxVolume
  /\ min_amount = RunMinAmount
  /\ now = 0
  /\ end_ts = WorkStep
  /\ seen_ids = {}
  /\ LocalsInit
  /\ posNo \in HedgePositions
  /\ posYes \in HedgePositions
  /\ extBid = BaseBid
  /\ extAsk \in {None} \cup ((BaseBid + 1)..(BaseBid + MaxSpread))
  /\ extYesAsk \in {None} \cup ((100 - BaseBid - MaxSpread)..(100 - BaseBid))
  /\ orders \in InitHedgeOrders
  /\ venueTrades = {}
  /\ otherOrders = <<>>
  /\ config = {}
  /\ cycleStart = 0
  /\ cycles = 1
  /\ stage = "reconciled"
  /\ calls = <<>>
  /\ hedgeCalls = <<>>
  /\ hedgeReads = <<>>
  /\ hedgeSeen = {}
  /\ caught = "none"
  /\ sendOk = ZeroCount
  /\ sendRaised = {}
  /\ reached = ZeroCount
  /\ lastMsg = NoMsg

\* buy_no / sell_no about to be called with one quote, on every book and
\* every offset x_cents_below_ask / x_cents_above_bid
InitPlace ==
  /\ pc = "place"
  /\ volume = MaxVolume
  /\ min_amount = RunMinAmount
  /\ now = 0
  /\ end_ts = WorkStep
  /\ seen_ids = {}
  /\ no_pos = RunMinAmount
  /\ extBid \in PriceMin..PriceMax
  /\ extAsk \in PriceMin..PriceMax
  /\ best_bid = extBid
  /\ best_ask = extAsk
  /\ distance_cents \in (0 - MaxOffset)..MaxOffset
  /\ \E side \in {"BUY", "SELL"} :
        desired = <<[side |-> side,
                     price |-> IF side = "BUY" THEN extAsk - distance_cents
                               ELSE extBid + distance_cents,
                     size |-> RunMinAmount]>>
  /\ open_orders = <<>>
  /\ prices_ok = FALSE
  /\ place_i = 1
  /\ trades = <<>>
  /\ trade_i = 1
  /\ posNo = no_pos
  /\ posYes = 0
  /\ extYesAsk = None
  /\ orders = <<>>
  /\ venueTrades = {}
  /\ otherOrders = <<>>
  /\ config = {}
  /\ cycleStart = 0
  /\ cycles = 1
  /\ stage = "read"
  /\ calls = <<>>
  /\ hedgeCalls = <<>>
  /\ hedgeReads = <<>>
  /\ hedgeSeen = {}
  /\ caught = "none"
  /\ sendOk = ZeroCount
  /\ sendRaised = {}
  /\ reached = ZeroCount
  /\ lastMsg = NoMsg

\* a venue whose "Yes" book has no ask when the robot starts
InitMarket ==
  /\ Entry
  /\ posNo = RunMinAmount
  /\ posYes \in {0, MaxPos}
  /\ extBid = BaseBid
  /\ extAsk = BaseBid + MaxSpread
  /\ extYesAsk = None
  /\ orders = <<>>
  /\ venueTrades = {1}
  /\ otherOrders = <<>>
  /\ config = {}

(* ---------------------------------------------------------------------- *)
(* run_robot, one action per step of a cycle                               *)
(* ---------------------------------------------------------------------- *)

\* the exception of a step is caught by the cycle's handler
Caught(step) ==
  /\ pc' = AfterRaise
  /\ caught' = step

\* while time.time() < end_ts: a new cycle begins
LoopEnter ==
  /\ pc = "top"
  /\ LoopCond(now, end_ts)
  /\ pc' = "positions"
  /\ no_pos' = 0 /\ best_bid' = None /\ best_ask' = None
  /\ distance_cents' = 1 /\ desired' = <<>> /\ open_orders' = <<>>
  /\ prices_ok' = TRUE /\ place_i' = 1 /\ trades' = <<>> /\ trade_i' = 1
  /\ cycleStart' = now
  /\ cycles' = cycles + 1
  /\ stage' = "begin"
  /\ calls' = <<>>
  /\ hedgeCalls' = <<>>
  /\ hedgeReads' = <<>>
  /\ UNCHANGED <<volume, min_amount, end_ts, seen_ids, venueVars, hedgeSeen,
                 caught, sendOk, sendRaised, reached, lastMsg>>

LoopExitCancels ==
  /\ pc = "top"
  /\ ~LoopCond(now, end_ts)
  /\ pc' = "stopped"
  /\ orders' = <<>>
  /\ UNCHANGED <<volume, min_amount, end_ts, seen_ids, no_pos, best_bid,
                 best_ask, distance_cents, desired, open_orders, prices_ok,
                 place_i, trades, trade_i, now, posNo, posYes, extBid,
                 extAsk, extYesAsk, venueTrades, otherOrders, config,
                 histVars>>

\* the loop condition is false: run_robot returns
LoopExit ==
  /\ pc = "top"
  /\ ~LoopCond(now, end_ts)
  /\ pc' = "stopped"
  /\ UNCHANGED <<volume, min_amount, end_ts, seen_ids, no_pos, best_bid,
                 best_ask, distance_cents, desired, open_orders, prices_ok,
                 place_i, trades, trade_i, venueVars, histVars>>

\* _auth_client finds POLY_PRIVATE_KEY and _resolve_market_id finds the market
VenueConfigured == config \cap {"venue_key", "market"} = {}

\* send_telegram_message finds TELEGRAM_BOT_TOKEN and TELEGRAM_CHAT_ID
TelegramConfigured == "telegram" \notin config

\* positions = get_positions(market); no_pos = positions["no"]
ReadPositions ==
  /\ pc = "positions"
  /\ VenueConfigured
  /\ no_pos' = posNo
  /\ \E d \in {0, NetDelay} : now' = now + d
  /\ pc' = "book"
  /\ caught' = "none"
  /\ UNCHANGED <<volume, min_amount, end_ts, seen_ids, best_bid, best_ask,
                 distance_cents, desired, open_orders, prices_ok, place_i,
                 trades, trade_i, posNo, posYes, extBid, extAsk, extYesAsk,
                 venueTrades, otherOrders, config,
                 orders, cycleStart, cycles, stage, calls, hedgeCalls, hedgeReads, hedgeSeen,
                 sendOk, sendRaised, reached, lastMsg>>

BookEmptyBothSides(bid, ask) == bid = None /\ ask = None

\* if best_bid is None or best_ask is None
BookEmpty(bid, ask) == bid = None \/ ask = None

\* spread_info = get_bid_ask_spread(market)["no"]; empty side: sleep, continue
ReadBook ==
  /\ pc = "book"
  /\ best_bid' = BestBid(orders, extBid)
  /\ best_ask' = BestAsk(orders, extAsk)
  /\ pc' = IF BookEmpty(best_bid', best_ask') THEN "sleep_empty" ELSE "quote"
  /\ stage' = "book"
  /\ UNCHANGED <<volume, min_amount, end_ts, seen_ids, no_pos,
                 distance_cents, desired, open_orders, prices_ok, place_i,
                 trades, trade_i, venueVars, cycleStart, cycles, calls,
                 hedgeCalls, hedgeReads, hedgeSeen, caught, sendOk,
                 sendRaised, reached, lastMsg>>

\* distance_cents, buy_price, sell_price and the list "desired"
ComputeQuotes ==
  /\ pc = "quote"
  /\ distance_cents' = DistanceCents(best_bid, best_ask)
  /\ desired' = Desired(no_pos, volume, min_amount, best_bid, best_ask)
  /\ stage' = "quoted"
  /\ pc' = "orders"
  /\ UNCHANGED <<volume, min_amount, end_ts, seen_ids, no_pos, best_bid,
                 best_ask, open_orders, prices_ok, place_i, trades, trade_i,
                 venueVars, cycleStart, cycles, calls, hedgeCalls, hedgeReads, hedgeSeen, caught,
                 sendOk, sendRaised, reached, lastMsg>>

AfterMatchedSkipsHedge == "trades"

\* "Orders already at best prices": the cycle goes on to hedge_once
AfterMatched == "hedge"

\* open_orders = get_open_orders(market); prices_ok over the desired quotes
ReadOpenOrders ==
  /\ pc = "orders"
  /\ open_orders' = orders
  /\ prices_ok' = PricesOk(desired, orders)
  /\ stage' = "read"
  /\ pc' = IF prices_ok' THEN AfterMatched ELSE "cancel"
  /\ UNCHANGED <<volume, min_amount, end_ts, seen_ids, no_pos, best_bid,
                 best_ask, distance_cents, desired, place_i, trades, trade_i,
                 venueVars, cycleStart, cycles, calls, hedgeCalls, hedgeReads, hedgeSeen, caught,
                 sendOk, sendRaised, reached, lastMsg>>


\* an entry of the call history: ok is FALSE when the call failed or raised
Call(op, ok, side, price, size) ==
  [op |-> op, ok |-> ok, side |-> side, price |-> price, size |-> size]

\* cancel_all_orders(): client.cancel_all() removes the account's open orders,
\* on every market
CancelAllOk ==
  /\ pc = "cancel"
  /\ orders' = <<>>
  /\ otherOrders' = <<>>
  /\ calls' = Append(calls, Call("cancel_all", TRUE, "", None, 0))
  /\ place_i' = 1
  /\ pc' = IF Len(desired) = 0 THEN "hedge" ELSE "place"
  /\ stage' = IF Len(desired) = 0 THEN "reconciled" ELSE stage
  /\ UNCHANGED <<volume, min_amount, end_ts, seen_ids, no_pos, best_bid,
                 best_ask, distance_cents, desired, open_orders, prices_ok,
                 trades, trade_i, now, posNo, posYes, extBid, extAsk,
                 extYesAsk, venueTrades, config, cycleStart, cycles,
                 hedgeCalls, hedgeReads, hedgeSeen, caught,
                 sendOk, sendRaised, reached, lastMsg>>

\* client.cancel_all() raises: cancel_all_orders returns {"error": ...}
CancelAllFails ==
  /\ pc = "cancel"
  /\ calls' = Append(calls, Call("cancel_all", FALSE, "", None, 0))
  /\ place_i' = 1
  /\ pc' = IF Len(desired) = 0 THEN "hedge" ELSE "place"
  /\ stage' = IF Len(desired) = 0 THEN "reconciled" ELSE stage
  /\ UNCHANGED <<volume, min_amount, end_ts, seen_ids, no_pos, best_bid,
                 best_ask, distance_cents, desired, open_orders, prices_ok,
                 trades, trade_i, venueVars, cycleStart, cycles, hedgeCalls, hedgeReads, hedgeSeen,
                 caught, sendOk, sendRaised, reached, lastMsg>>

\* _auth_client() inside cancel_all_orders raises, outside its try block
CancelAllRaises ==
  /\ pc = "cancel"
  /\ calls' = Append(calls, Call("cancel_all", FALSE, "", None, 0))
  /\ Caught("cancel")
  /\ UNCHANGED <<volume, min_amount, end_ts, seen_ids, no_pos, best_bid,
                 best_ask, distance_cents, desired, open_orders, prices_ok,
                 place_i, trades, trade_i, venueVars, cycleStart, cycles,
                 stage, hedgeCalls, hedgeReads, hedgeSeen, sendOk, sendRaised, reached, lastMsg>>

\* the price at which buy_no / sell_no submits, from the book at that moment
PlacePrice(side) ==
  IF side = "BUY"
  THEN BuyNoPrice(BestAsk(orders, extAsk), distance_cents)
  ELSE SellNoPrice(BestBid(orders, extBid), distance_cents)

\* the book side buy_no / sell_no quotes against
PlaceRef(side) ==
  IF side = "BUY" THEN BestAsk(orders, extAsk) ELSE BestBid(orders, extBid)

\* for side, price, size in desired: buy_no(...) or sell_no(...) succeeds
Place ==
  /\ pc = "place"
  /\ place_i <= Len(desired)
  /\ LET q == desired[place_i]
         p == PlacePrice(q.side)
     IN /\ PlaceRef(q.side) # None
        /\ Len(orders) < MaxOrders
        /\ orders' = Append(orders, NewOrder(q.side, "no", p, q.size))
        /\ calls' = Append(calls, Call("place", TRUE, q.side, p, q.size))
  /\ place_i' = place_i + 1
  /\ pc' = IF place_i = Len(desired) THEN "hedge" ELSE "place"
  /\ stage' = IF place_i = Len(desired) THEN "reconciled" ELSE stage
  /\ UNCHANGED <<volume, min_amount, end_ts, seen_ids, no_pos, best_bid,
                 best_ask, distance_cents, desired, open_orders, prices_ok,
                 trades, trade_i, now, posNo, posYes, extBid, extAsk,
                 extYesAsk, venueTrades, otherOrders, config, cycleStart, cycles, hedgeCalls, hedgeReads, hedgeSeen,
                 caught,
                 sendOk, sendRaised, reached, lastMsg>>

\* buy_no / sell_no raises (empty book side, rejection, transport failure)
PlaceRaises ==
  /\ pc = "place"
  /\ place_i <= Len(desired)
  /\ LET q == desired[place_i]
     IN calls' = Append(calls, Call("place", FALSE, q.side, None, q.size))
  /\ Caught("place")
  /\ UNCHANGED <<volume, min_amount, end_ts, seen_ids, no_pos, best_bid,
                 best_ask, distance_cents, desired, open_orders, prices_ok,
                 place_i, trades, trade_i, venueVars, cycleStart, cycles,
                 stage, hedgeCalls, hedgeReads, hedgeSeen, sendOk, sendRaised,
                 reached, lastMsg>>

(* ---------------------------------------------------------------------- *)
(* HedgeEngine (robot_v2.hedge_once)                                       *)
(* ---------------------------------------------------------------------- *)

\* str.lower() on the outcome tags that occur
Lower(s) ==
  IF s \in {"No", "NO"} THEN "no"
  ELSE IF s \in {"Yes", "YES"} THEN "yes" ELSE s

\* token_lookup.get(str(token_id)) with token_lookup = get_token_outcomes()
TokenLookup(token) ==
  IF token = "tokNo" THEN "no" ELSE IF token = "tokYes" THEN "yes" ELSE ""

HasBuyOrderTagOnly(ords, outcome) ==
  \E i \in DOMAIN ords :
     Upper(ords[i].side) = "BUY" /\ Lower(ords[i].tag) = outcome

HasBuyOrderBesidesQuotes(ords, outcome) ==
  \E i \in DOMAIN ords :
     /\ Upper(ords[i].side) = "BUY"
     /\ \/ ords[i].token # "" /\ TokenLookup(ords[i].token) = outcome
        \/ Lower(ords[i].tag) = outcome
     /\ \A k \in DOMAIN desired :
           ~(desired[k].side = "BUY" /\ desired[k].price = ords[i].price)

\* _has_buy_order(outcome): an open BUY order whose token maps to the outcome
\* or whose "outcome" field, lower-cased, is the outcome
HasBuyOrder(ords, outcome) ==
  \E i \in DOMAIN ords :
     /\ Upper(ords[i].side) = "BUY"
     /\ \/ ords[i].token # "" /\ TokenLookup(ords[i].token) = outcome
        \/ Lower(ords[i].tag) = outcome

DeltaCentsOwnAsk(askMinor, askMajor) == askMinor - (100 - askMinor)

DeltaCentsNeverNegative(askMinor, askMajor) ==
  Max(askMinor - (100 - askMajor), 0)

\* delta_cents = round((ask_minor - round(1 - ask_major, 2)) * 100)
DeltaCents(askMinor, askMajor) == askMinor - (100 - askMajor)

HedgeBranchNoBalance(yesPos, noPos, yesAsk, noAsk) ==
  IF yesPos > noPos /\ yesAsk # None /\ noAsk # None THEN "buy_no"
  ELSE IF noPos > yesPos /\ yesAsk # None /\ noAsk # None THEN "buy_yes"
  ELSE "missing"

HedgeBranchAsksUnchecked(yesPos, noPos, yesAsk, noAsk) ==
  IF yesPos = noPos THEN "balanced"
  ELSE IF yesPos > noPos THEN "buy_no"
  ELSE "buy_yes"

\* the branch of hedge_once: the early return on balanced positions, the two
\* arms of "if yes_pos > no_pos and ... elif no_pos > yes_pos and ..." and
\* the final else ("Order book data missing")
HedgeBranch(yesPos, noPos, yesAsk, noAsk) ==
  IF yesPos = noPos THEN "balanced"
  ELSE IF yesPos > noPos /\ yesAsk # None /\ noAsk # None THEN "buy_no"
  ELSE IF noPos > yesPos /\ yesAsk # None /\ noAsk # None THEN "buy_yes"
  ELSE "missing"

\* the branch hedge_once takes on the venue as it is now
HedgeNow ==
  HedgeBranch(posYes, posNo, BestYesAsk(orders, extYesAsk),
              BestAsk(orders, extAsk))

\* the venue reads of one invocation: positions, then, unless balanced, the
\* book, the open orders and the token lookup
HedgeReads(branch) ==
  IF branch = "balanced" THEN <<"get_positions">>
  ELSE <<"get_positions", "get_bid_ask_spread", "get_open_orders",
         "get_token_outcomes">>

\* the order hedge_once places on the venue as it is now, <<>> when none
HedgeOrder ==
  LET yes_ask == BestYesAsk(orders, extYesAsk)
      no_ask  == BestAsk(orders, extAsk)
  IN IF HedgeNow = "buy_no"
     THEN IF HasBuyOrder(orders, "no") THEN <<>>
          ELSE <<NewOrder("BUY", "no",
                          BuyNoPrice(no_ask, DeltaCents(no_ask, yes_ask)),
                          posYes - posNo)>>
     ELSE IF HedgeNow = "buy_yes"
     THEN IF HasBuyOrder(orders, "yes") THEN <<>>
          ELSE <<NewOrder("BUY", "yes",
                          BuyYesPrice(yes_ask, DeltaCents(yes_ask, no_ask)),
                          posNo - posYes)>>
     ELSE <<>>

\* how the invocation ends
HedgeResult ==
  IF HedgeNow \in {"balanced", "missing"} THEN HedgeNow
  ELSE IF HedgeOrder = <<>> THEN "skipped" ELSE "placed"

\* hedge_once(market) returns normally
HedgeOnce ==
  /\ pc = "hedge"
  /\ Len(orders) + Len(HedgeOrder) <= MaxOrders
  /\ orders' = orders \o HedgeOrder
  /\ hedgeCalls' = hedgeCalls \o HedgeOrder
  /\ hedgeReads' = hedgeReads \o HedgeReads(HedgeNow)
  /\ hedgeSeen' = hedgeSeen \cup {HedgeResult}
  /\ stage' = "hedged"
  /\ pc' = "trades"
  /\ UNCHANGED <<volume, min_amount, end_ts, seen_ids, no_pos, best_bid,
                 best_ask, distance_cents, desired, open_orders, prices_ok,
                 place_i, trades, trade_i, now, posNo, posYes, extBid,
                 extAsk, extYesAsk, venueTrades, otherOrders, config, cycleStart, cycles, calls,
                 caught, sendOk, sendRaised, reached, lastMsg>>

\* a venue call of hedge_once raises, the first one (get_positions) or a
\* later one
HedgeRaises ==
  /\ pc = "hedge"
  /\ hedgeReads' = hedgeReads \o <<"get_positions">>
  /\ Caught("hedge")
  /\ UNCHANGED <<volume, min_amount, end_ts, seen_ids, no_pos, best_bid,
                 best_ask, distance_cents, desired, open_orders, prices_ok,
                 place_i, trades, trade_i, venueVars, cycleStart, cycles,
                 stage, calls, hedgeCalls, hedgeSeen, sendOk, sendRaised,
                 reached, lastMsg>>

(* ---------------------------------------------------------------------- *)
(* Trade notification and the end of the cycle                             *)
(* ---------------------------------------------------------------------- *)

\* trades = get_recent_trades(market, 2)
ReadTrades ==
  /\ pc = "trades"
  /\ trades' \in TradeLists(venueTrades)
  /\ trade_i' = 1
  /\ pc' = "notify"
  /\ UNCHANGED <<volume, min_amount, end_ts, seen_ids, no_pos, best_bid,
                 best_ask, distance_cents, desired, open_orders, prices_ok,
                 place_i, venueVars, histVars>>

Bump(f, id) == [f EXCEPT ![id] = @ + 1]
Looked(f, id) == [f EXCEPT ![id] = Min(@ + 1, 2)]

\* trade_id in seen_ids: nothing is sent
NotifySkip ==
  /\ pc = "notify"
  /\ trade_i <= Len(trades)
  /\ trades[trade_i] \in seen_ids
  /\ reached' = Looked(reached, trades[trade_i])
  /\ trade_i' = trade_i + 1
  /\ UNCHANGED <<pc, volume, min_amount, end_ts, seen_ids, no_pos, best_bid,
                 best_ask, distance_cents, desired, open_orders, prices_ok,
                 place_i, trades, venueVars, cycleStart, cycles, stage, calls,
                 hedgeCalls, hedgeReads, hedgeSeen, caught, sendOk, sendRaised,
                 lastMsg>>

\* send_telegram_message(msg) returns; seen_ids.add(trade_id)
NotifySend ==
  /\ pc = "notify"
  /\ trade_i <= Len(trades)
  /\ trades[trade_i] \notin seen_ids
  /\ TelegramConfigured
  /\ lastMsg' = Summary("robot_v2", VenueTrade(trades[trade_i]))
  /\ reached' = Looked(reached, trades[trade_i])
  /\ sendOk' = Bump(sendOk, trades[trade_i])
  /\ seen_ids' = SeenAfterSend(seen_ids, trades[trade_i])
  /\ trade_i' = trade_i + 1
  /\ UNCHANGED <<pc, volume, min_amount, end_ts, no_pos, best_bid,
                 best_ask, distance_cents, desired, open_orders, prices_ok,
                 place_i, trades, venueVars, cycleStart, cycles, stage, calls,
                 hedgeCalls, hedgeReads, hedgeSeen, caught, sendRaised>>

\* send_telegram_message(msg) raises
NotifyRaises ==
  /\ pc = "notify"
  /\ trade_i <= Len(trades)
  /\ trades[trade_i] \notin seen_ids
  /\ lastMsg' = Summary("robot_v2", VenueTrade(trades[trade_i]))
  /\ reached' = Looked(reached, trades[trade_i])
  /\ sendRaised' = sendRaised \cup {trades[trade_i]}
  /\ Caught("notify")
  /\ UNCHANGED <<volume, min_amount, end_ts, seen_ids, no_pos, best_bid,
                 best_ask, distance_cents, desired, open_orders, prices_ok,
                 place_i, trades, trade_i, venueVars, cycleStart, cycles,
                 stage, calls, hedgeCalls, hedgeReads, hedgeSeen, sendOk>>

\* the list of trades is exhausted
NotifyDone ==
  /\ pc = "notify"
  /\ trade_i > Len(trades)
  /\ stage' = "notified"
  /\ pc' = "sleep"
  /\ UNCHANGED <<volume, min_amount, end_ts, seen_ids, no_pos, best_bid,
                 best_ask, distance_cents, desired, open_orders, prices_ok,
                 place_i, trades, trade_i, venueVars, cycleStart, cycles,
                 calls, hedgeCalls, hedgeReads, hedgeSeen, caught, sendOk, sendRaised,
                 reached, lastMsg>>

\* a venue read of the cycle raises (positions, book, open orders, trades)
ReadRaises ==
  /\ pc \in {"positions", "book", "orders", "trades"}
  /\ Caught(pc)
  /\ UNCHANGED <<volume, min_amount, end_ts, seen_ids, no_pos, best_bid,
                 best_ask, distance_cents, desired, open_orders, prices_ok,
                 place_i, trades, trade_i, venueVars, cycleStart, cycles,
                 stage, calls, hedgeCalls, hedgeReads, hedgeSeen, sendOk, sendRaised,
                 reached, lastMsg>>

\* time.sleep(60) at the end of the cycle
Sleep ==
  /\ pc = "sleep"
  /\ now' = now + SleepSecs
  /\ pc' = "top"
  /\ UNCHANGED <<volume, min_amount, end_ts, seen_ids, no_pos, best_bid,
                 best_ask, distance_cents, desired, open_orders, prices_ok,
                 place_i, trades, trade_i, posNo, posYes, extBid, extAsk,
                 extYesAsk, venueTrades, otherOrders, config, orders, histVars>>

SleepEmptyBookFallsThrough ==
  /\ pc = "sleep_empty"
  /\ now' = now + SleepSecs
  /\ pc' = "sleep"
  /\ UNCHANGED <<volume, min_amount, end_ts, seen_ids, no_pos, best_bid,
                 best_ask, distance_cents, desired, open_orders, prices_ok,
                 place_i, trades, trade_i, posNo, posYes, extBid, extAsk,
                 extYesAsk, venueTrades, otherOrders, config, orders, histVars>>

\* "Order book empty, sleeping": time.sleep(60); continue
SleepEmptyBook ==
  /\ pc = "sleep_empty"
  /\ now' = now + SleepSecs
  /\ pc' = "top"
  /\ UNCHANGED <<volume, min_amount, end_ts, seen_ids, no_pos, best_bid,
                 best_ask, distance_cents, desired, open_orders, prices_ok,
                 place_i, trades, trade_i, posNo, posYes, extBid, extAsk,
                 extYesAsk, venueTrades, otherOrders, config, orders, histVars>>

Next ==
  \/ LoopEnter
  \/ LoopExit
  \/ ReadPositions
  \/ ReadBook
  \/ ComputeQuotes
  \/ ReadOpenOrders
  \/ CancelAllOk
  \/ CancelAllFails
  \/ CancelAllRaises
  \/ Place
  \/ PlaceRaises
  \/ HedgeOnce
  \/ HedgeRaises
  \/ ReadTrades
  \/ NotifySkip
  \/ NotifySend
  \/ NotifyRaises
  \/ NotifyDone
  \/ ReadRaises
  \/ Sleep
  \/ SleepEmptyBook

Spec == Init /\ [][Next]_vars

\* the loop on the venues of InitLive
LiveSpec == InitLive /\ [][Next]_vars

\* every step of run_robot returns or raises: the loop keeps taking steps
FairSpec == InitLive /\ [][Next]_vars /\ WF_vars(Next)

\* the quote calculation alone
QuoteSpec == InitQuote /\ [][ComputeQuotes]_vars

\* hedge_once alone
HedgeSpec == InitHedge /\ [][HedgeOnce]_vars

\* the placement of one quote by buy_no / sell_no alone
PlaceSpec == InitPlace /\ [][Place]_vars

\* other participants post or withdraw the best asks of the two books while
\* the robot sleeps or is about to hedge
BookMoves ==
  /\ pc \in {"sleep", "sleep_empty", "hedge"}
  /\ extAsk' \in {None, BaseBid + MaxSpread}
  /\ extYesAsk' \in {None, 100 - BaseBid}
  /\ <<extAsk', extYesAsk'>> # <<extAsk, extYesAsk>>
  /\ UNCHANGED <<progVars, now, posNo, posYes, extBid, orders, venueTrades, otherOrders, config,
                 histVars>>

NextMarket ==
  \/ Next
  \/ BookMoves

\* the loop on a venue whose asks come and go
MarketSpec == InitMarket /\ [][NextMarket]_vars

\* the order a second run_robot instance rests on its own market, placed
\* through the same account
OtherOrder ==
  [NewOrder("BUY", "no", BaseBid, RunMinAmount) EXCEPT !.token = "tokOtherNo"]

\* the reconciler of the second instance places its quote (buy_no on its
\* market)
OtherPlaces ==
  /\ otherOrders = <<>>
  /\ otherOrders' = <<OtherOrder>>
  /\ UNCHANGED <<progVars, now, posNo, posYes, extBid, extAsk, extYesAsk,
                 orders, venueTrades, config, histVars>>

\* the reconciler of the second instance calls cancel_all_orders():
\* client.cancel_all() removes the account's open orders, on every market
OtherCancels ==
  /\ otherOrders # <<>> \/ orders # <<>>
  /\ otherOrders' = <<>>
  /\ orders' = <<>>
  /\ UNCHANGED <<progVars, now, posNo, posYes, extBid, extAsk, extYesAsk,
                 venueTrades, config, histVars>>

NextPair ==
  \/ Next
  \/ OtherPlaces
  \/ OtherCancels

\* two run_robot instances on two markets of one account
PairSpec == InitLive /\ [][NextPair]_vars

\* a venue that stands still: both sides of the No book quoted by others, no
\* ask on the Yes book, constant positions, and a deadline that leaves room
\* for MaxSpread + 2 cycles
InitStatic ==
  /\ pc = "top"
  /\ volume = MaxVolume
  /\ min_amount = RunMinAmount
  /\ now = 0
  /\ end_ts = (MaxSpread + 2) * SleepSecs
  /\ seen_ids = {}
  /\ LocalsInit
  /\ HistInit
  /\ posNo \in {0, RunMinAmount, MaxVolume}
  /\ posYes = 0
  /\ extBid = BaseBid
  /\ extAsk \in (BaseBid + 1)..(BaseBid + MaxSpread)
  /\ extYesAsk = None
  /\ orders \in InitOrders
  /\ venueTrades = {1}
  /\ otherOrders = <<>>
  /\ config = {}

\* client.cancel_all() fails in the first cycle and in no later one
CancelFailsFirst ==
  /\ cycles = 1
  /\ CancelAllFails

\* the cycle in which every venue call returns, except that the first
\* cancel_all may fail
NextStale ==
  \/ LoopEnter
  \/ LoopExit
  \/ ReadPositions
  \/ ReadBook
  \/ ComputeQuotes
  \/ ReadOpenOrders
  \/ CancelAllOk
  \/ CancelFailsFirst
  \/ Place
  \/ HedgeOnce
  \/ ReadTrades
  \/ NotifySkip
  \/ NotifySend
  \/ NotifyDone
  \/ Sleep

\* the loop on the standing venue, every step eventually taken
StaleSpec == InitStatic /\ [][NextStale]_vars /\ WF_vars(NextStale)

\* the environment run_robot is started in: complete, or lacking
\* POLY_PRIVATE_KEY, a resolvable market identifier, or the Telegram variables
Configs == {{}, {"venue_key"}, {"market"}, {"telegram"}}

InitConfig ==
  /\ Entry
  /\ posNo = RunMinAmount
  /\ posYes \in {0, MaxPos}
  /\ extBid \in {None, BaseBid}
  /\ extAsk = BaseBid + MaxSpread
  /\ extYesAsk = 100 - BaseBid
  /\ orders = <<>>
  /\ venueTrades = TradeIds
  /\ otherOrders = <<>>
  /\ config \in Configs

\* the loop started in every environment of Configs
ConfigSpec == InitConfig /\ [][Next]_vars

\* the programs of the repository that summarise trades
Notifiers == {"robot_v1", "robot_v2", "order_monitor"}

\* the values of a trade's "side" field
TradeSides == {"BUY", "buy", "Buy", "SELL", "sell", "Sell", ""}

\* a trade as the notifier 'by' receives it: the robots read
\* get_recent_trades, which has divided the size by 1_000_000 already,
\* order_monitor reads client.get_trades() itself
TradeFor(by, side, shares, price) ==
  [id |-> 1, side |-> side,
   size |-> IF by = "order_monitor" THEN shares * 1000000 ELSE shares,
   price |-> price]

InitSummary ==
  /\ InitMarket
  /\ posYes = 0
  /\ end_ts = 0

\* msg = _summarise_trade(trade) in one of the three programs
Summarise ==
  /\ \E by \in Notifiers, side \in TradeSides, shares \in 0..MaxVolume,
        price \in BaseBid..(BaseBid + MaxSpread) :
        lastMsg' = Summary(by, TradeFor(by, side, shares, price))
  /\ UNCHANGED <<progVars, venueVars, cycleStart, cycles, stage, calls,
                 hedgeCalls, hedgeReads, hedgeSeen, caught, sendOk,
                 sendRaised, reached>>

\* the three _summarise_trade functions on every trade
SummarySpec == InitSummary /\ [][Summarise]_vars

\* a book that others leave alone, with or without an order of the bot
\* already resting on it
InitRace ==
  /\ Entry
  /\ posNo \in {0, RunMinAmount}
  /\ posYes = 0
  /\ extBid = BaseBid
  /\ extAsk = BaseBid + MaxSpread
  /\ extYesAsk = None
  /\ orders \in InitOrders
  /\ venueTrades = {1}
  /\ otherOrders = <<>>
  /\ config = {}

\* the sequence without its i-th element
RemoveAt(seq, i) ==
  [j \in 1..(Len(seq) - 1) |-> IF j < i THEN seq[j] ELSE seq[j + 1]]

\* the venue matches one of the bot's resting No orders in full, at any moment
\* of the cycle: a BUY adds its size to the No position, a SELL takes it off
Fill ==
  /\ \E i \in DOMAIN orders :
        /\ orders[i].outcome = "no"
        /\ IF Upper(orders[i].side) = "BUY"
           THEN /\ posNo + orders[i].size <= 2 * MaxVolume
                /\ posNo' = posNo + orders[i].size
           ELSE /\ posNo >= orders[i].size
                /\ posNo' = posNo - orders[i].size
        /\ orders' = RemoveAt(orders, i)
  /\ UNCHANGED <<progVars, now, posYes, extBid, extAsk, extYesAsk,
                 venueTrades, otherOrders, config, histVars>>

\* the cycle in which every venue call returns, with fills in between
NextRace ==
  \/ LoopEnter
  \/ LoopExit
  \/ ReadPositions
  \/ ReadBook
  \/ ComputeQuotes
  \/ ReadOpenOrders
  \/ CancelAllOk
  \/ Place
  \/ HedgeOnce
  \/ ReadTrades
  \/ NotifySkip
  \/ NotifySend
  \/ NotifyDone
  \/ Sleep
  \/ Fill

\* the loop on a book that others leave alone while the bot's orders fill
RaceSpec == InitRace /\ [][NextRace]_vars

\* robot_v1 has no hedge step: after the reconciler the cycle goes on to
\* get_recent_trades
NoHedgeV1 ==
  /\ pc = "hedge"
  /\ pc' = "trades"
  /\ stage' = "hedged"
  /\ UNCHANGED <<volume, min_amount, end_ts, seen_ids, no_pos, best_bid,
                 best_ask, distance_cents, desired, open_orders, prices_ok,
                 place_i, trades, trade_i, venueVars, cycleStart, cycles,
                 calls, hedgeCalls, hedgeReads, hedgeSeen, caught, sendOk,
                 sendRaised, reached, lastMsg>>

\* a cycle of robot_v1 in which every venue call returns
NextStatic ==
  \/ LoopEnter
  \/ LoopExit
  \/ ReadPositions
  \/ ReadBook
  \/ ComputeQuotes
  \/ ReadOpenOrders
  \/ CancelAllOk
  \/ Place
  \/ NoHedgeV1
  \/ ReadTrades
  \/ NotifySkip
  \/ NotifySend
  \/ NotifyDone
  \/ Sleep

\* robot_v1 on the standing venue, every step eventually taken
StaticSpec == InitStatic /\ [][NextStatic]_vars /\ WF_vars(NextStatic)

\* a BUY order on the Yes token, such as hedge_once leaves resting, at one of
\* the prices a BUY quote for No can have, or no order at all
InitYesOrders ==
  {<<>>} \cup {<<NewOrder("BUY", "yes", p, RunMinAmount)>> :
                 p \in BaseBid..(BaseBid + MaxSpread)}

InitToken ==
  /\ Entry
  /\ posNo \in {0, RunMinAmount, MaxPos}
  /\ posYes \in {0, 10 * MaxPos}
  /\ extBid \in {None, BaseBid}
  /\ extAsk \in {BaseBid + 1, BaseBid + MaxSpread}
  /\ extYesAsk = 100 - BaseBid
  /\ orders \in InitYesOrders
  /\ venueTrades = {1}
  /\ otherOrders = <<>>
  /\ config = {}

\* the loop on an account that may hold an open order on the Yes token and
\* far more Yes than No
TokenSpec == InitToken /\ [][Next]_vars

\* run_robot entered with a min_amount that the position can or cannot meet,
\* on an account with or without an order already resting
InitLeftover ==
  /\ pc = "top"
  /\ volume = MaxVolume
  /\ min_amount \in {RunMinAmount, MaxVolume}
  /\ now = 0
  /\ end_ts \in {k * WorkStep : k \in 0..MaxWorkSteps}
  /\ seen_ids = {}
  /\ LocalsInit
  /\ HistInit
  /\ posNo \in {0, RunMinAmount}
  /\ posYes = 0
  /\ extBid \in {None, BaseBid}
  /\ extAsk \in {BaseBid + 1, BaseBid + MaxSpread}
  /\ extYesAsk = None
  /\ orders \in InitOrders
  /\ venueTrades = {1}
  /\ otherOrders = <<>>
  /\ config = {}

\* the loop with quotes that may all fall below min_amount
LeftoverSpec == InitLeftover /\ [][Next]_vars

TypeOK ==
  /\ pc \in {"top", "positions", "book", "quote", "orders", "cancel", "place",
             "hedge", "trades", "notify", "sleep", "sleep_empty", "stopped",
             "crashed"}
  /\ seen_ids \subseteq TradeIds
  /\ Len(orders) <= MaxOrders


(* ====================================================================== *)
(* Properties                                                              *)
(* ====================================================================== *)

\* the steps inside a cycle, between the loop test and the sleep
CycleSteps == {"positions", "book", "quote", "orders", "cancel", "place",
               "hedge", "trades", "notify"}

\* the desired quotes of the current cycle have been computed
Quoted == stage \in {"quoted", "read", "reconciled", "hedged", "notified"}

\* the open orders of the current cycle have been read
OrdersRead == stage \in {"read", "reconciled", "hedged", "notified"}

\* the current cycle is over
CycleOver == pc \in {"sleep", "sleep_empty", "top", "stopped"}

\* quote q has an open order of the same side (ignoring case) and price
Matched(q) ==
  \E j \in DOMAIN open_orders :
     /\ Upper(open_orders[j].side) = q.side
     /\ open_orders[j].price = q.price

AllMatched == \A i \in DOMAIN desired : Matched(desired[i])

BuyQuotes == {i \in DOMAIN desired : desired[i].side = "BUY"}
SellQuotes == {i \in DOMAIN desired : desired[i].side = "SELL"}

(* ---------------------------------------------------------------------- *)
\* C1: in a cycle where every desired quote has an open order of the same
\* side (ignoring case) and price, the reconciler issues no OrderPort call
\* (no cancel_all_orders, no buy_no, no sell_no), whatever the sizes of the
\* open orders.
ReconcilerIdempotent ==
  (OrdersRead /\ AllMatched) => calls = <<>>

\* a finished reconciliation with a matched quote whose order has another size
ReconcilerIdempotentWitness ==
  /\ stage \in {"reconciled", "hedged", "notified"}
  /\ desired # <<>>
  /\ AllMatched
  /\ \E i \in DOMAIN desired : \E j \in DOMAIN open_orders :
        /\ open_orders[j].side = "buy"
        /\ open_orders[j].price = desired[i].price
        /\ open_orders[j].size # desired[i].size
  /\ calls = <<>>

(* ---------------------------------------------------------------------- *)
\* C2: in a cycle where some desired quote has no matching open order, the
\* reconciler issues exactly one cancel-all call first and then exactly one
\* placement call for every desired quote of the cycle; no placement happens
\* without a preceding cancel-all of the same cycle.
ReplaceAll ==
  /\ \A i \in DOMAIN calls :
        calls[i].op = "place" => (i > 1 /\ calls[1].op = "cancel_all")
  /\ (CycleOver /\ OrdersRead /\ ~AllMatched) =>
        /\ Len(calls) = Len(desired) + 1
        /\ calls[1].op = "cancel_all"
        /\ \A i \in DOMAIN desired :
              /\ calls[i + 1].op = "place"
              /\ calls[i + 1].side = desired[i].side

(* ---------------------------------------------------------------------- *)
\* C3: every order the reconciler submits has exactly the side, price and
\* size of a desired quote computed in that cycle, also when the best
\* bid/ask at placement time differs from the one the quote was computed on.
PlacedAsDesired ==
  \A i \in DOMAIN calls :
     (calls[i].op = "place" /\ calls[i].ok) =>
        \E k \in DOMAIN desired :
           desired[k] = [side |-> calls[i].side, price |-> calls[i].price,
                         size |-> calls[i].size]

(* ---------------------------------------------------------------------- *)
\* C4: a trade identifier the notifier has looked at, once or several times,
\* in one cycle or in several, has caused exactly one send call, provided no
\* send for it raised.
NotifierDedupe ==
  \A id \in TradeIds :
     (reached[id] >= 1 /\ id \notin sendRaised) => sendOk[id] = 1

\* an identifier looked at more than once and sent once
NotifierDedupeWitness ==
  \E id \in TradeIds :
     /\ reached[id] = 2
     /\ id \notin sendRaised
     /\ sendOk[id] = 1
     /\ id \in seen_ids

(* ---------------------------------------------------------------------- *)
\* C5: an exception raised by a step of a cycle is caught inside the cycle
\* and never ends the loop: a cycle is only left towards the inter-cycle
\* sleep, the sleep leads back to the loop test SleepSecs later, the loop
\* test starts a further cycle whenever the deadline has not been reached,
\* and run_robot only returns from the loop test.
FailureIsolation ==
  [][ /\ (pc \in CycleSteps /\ pc' \notin CycleSteps)
            => pc' \in {"sleep", "sleep_empty"}
      /\ (pc \in {"sleep", "sleep_empty"})
            => (pc' = "top" /\ now' = now + SleepSecs)
      /\ (pc = "top" /\ now < end_ts) => pc' = "positions"
      /\ (pc' = "stopped") => (pc = "top" /\ now >= end_ts)
      /\ pc' # "crashed" ]_vars

\* a further cycle has begun after a caught exception
FailureIsolationWitness ==
  /\ pc = "positions"
  /\ cycles >= 2
  /\ caught \in {"positions", "book", "orders", "cancel", "place", "hedge",
                 "trades", "notify"}

(* ---------------------------------------------------------------------- *)
\* C6: the loop stops only at the loop test and only when the clock has
\* reached the deadline; no cycle begins at or after the deadline; a cycle
\* under way is not interrupted by the deadline; run_robot eventually returns.
DeadlineStops ==
  /\ [](pc \in CycleSteps => cycleStart < end_ts)
  /\ [](pc = "stopped" => now >= end_ts)
  /\ [][pc' = "stopped" => (pc = "top" /\ now >= end_ts)]_vars
  /\ [][(pc = "top" /\ now >= end_ts) => pc' = "stopped"]_vars
  /\ <>(pc = "stopped")

\* the loop has stopped after a cycle that ran past the deadline
DeadlineStopsWitness ==
  /\ pc = "stopped"
  /\ cycles >= 1
  /\ cycleStart < end_ts
  /\ now - SleepSecs >= end_ts

(* ---------------------------------------------------------------------- *)
\* C7: for a position below volume the desired quotes contain a BUY quote,
\* of size exactly volume - no_pos, if and only if volume - no_pos >=
\* min_amount; for a position at or above volume they contain no BUY quote.
BuyRule ==
  Quoted =>
    /\ (no_pos < volume /\ volume - no_pos >= min_amount) =>
          /\ Cardinality(BuyQuotes) = 1
          /\ \A i \in BuyQuotes : desired[i].size = volume - no_pos
    /\ (no_pos < volume /\ volume - no_pos < min_amount) => BuyQuotes = {}
    /\ (no_pos >= volume) => BuyQuotes = {}

\* a BUY quote of exactly the minimum size
BuyRuleWitness ==
  /\ Quoted
  /\ no_pos < volume
  /\ volume - no_pos = min_amount
  /\ \E i \in BuyQuotes : desired[i].size = min_amount

(* ---------------------------------------------------------------------- *)
\* C8: for a position above zero the desired quotes contain a SELL quote, of
\* size exactly no_pos, if and only if no_pos >= min_amount; for a zero
\* position they contain no SELL quote; when min_amount <= no_pos and
\* volume - no_pos >= min_amount both a BUY and a SELL quote are produced.
SellRule ==
  Quoted =>
    /\ (no_pos > 0 /\ no_pos >= min_amount) =>
          /\ Cardinality(SellQuotes) = 1
          /\ \A i \in SellQuotes : desired[i].size = no_pos
    /\ (no_pos > 0 /\ no_pos < min_amount) => SellQuotes = {}
    /\ (no_pos = 0) => SellQuotes = {}
    /\ (no_pos > 0 /\ min_amount <= no_pos /\ volume - no_pos >= min_amount)
          => (BuyQuotes # {} /\ SellQuotes # {})

\* both quotes, the SELL quote of exactly the minimum size
SellRuleWitness ==
  /\ Quoted
  /\ no_pos = min_amount
  /\ BuyQuotes # {}
  /\ \E i \in SellQuotes : desired[i].size = min_amount

(* ---------------------------------------------------------------------- *)
\* C9: distance_cents is floor(spread / 2) + 1 when the spread best_ask -
\* best_bid exceeds one tick and 1 otherwise; the BUY price is best_ask -
\* distance_cents and the SELL price is best_bid + distance_cents; bid 40,
\* ask 46 gives distance 4 and BUY price 42.
AdaptiveDistance ==
  Quoted =>
    LET spread == best_ask - best_bid IN
    /\ spread > 1 =>
          /\ 2 * (distance_cents - 1) <= spread
          /\ spread < 2 * distance_cents
    /\ spread <= 1 => distance_cents = 1
    /\ \A i \in BuyQuotes : desired[i].price = best_ask - distance_cents
    /\ \A i \in SellQuotes : desired[i].price = best_bid + distance_cents
    /\ (best_bid = 40 /\ best_ask = 46) =>
          /\ distance_cents = 4
          /\ \A i \in BuyQuotes : desired[i].price = 42

\* the scenario of the specification: bid 0.40, ask 0.46, BUY at 0.42
AdaptiveDistanceWitness ==
  /\ Quoted
  /\ best_bid = 40 /\ best_ask = 46
  /\ distance_cents = 4
  /\ \E i \in BuyQuotes : desired[i].price = 42

(* ---------------------------------------------------------------------- *)
\* C10 as stated: for every book with best_bid < best_ask the BUY price and
\* the SELL price are strictly above best_bid and strictly below best_ask.
QuotesStrictlyInside ==
  (Quoted /\ best_bid < best_ask) =>
     \A i \in DOMAIN desired :
        best_bid < desired[i].price /\ desired[i].price < best_ask

\* C10 amended: for every book with best_bid < best_ask the BUY price is
\* at or above best_bid and strictly below best_ask, the SELL price is
\* strictly above best_bid and at or below best_ask (neither reaches or
\* crosses the opposite side); both are strictly inside the spread when it
\* is at least 3 ticks, and at a spread of 1 or 2 ticks the BUY price is
\* best_bid and the SELL price is best_ask.
QuotesWithinSpread ==
  (Quoted /\ best_bid < best_ask) =>
     /\ \A i \in BuyQuotes :
           best_bid <= desired[i].price /\ desired[i].price < best_ask
     /\ \A i \in SellQuotes :
           best_bid < desired[i].price /\ desired[i].price <= best_ask
     /\ (best_ask - best_bid >= 3) =>
           \A i \in DOMAIN desired :
              best_bid < desired[i].price /\ desired[i].price < best_ask
     /\ (best_ask - best_bid <= 2) =>
           /\ \A i \in BuyQuotes : desired[i].price = best_bid
           /\ \A i \in SellQuotes : desired[i].price = best_ask

\* both quotes on a spread of two ticks: the BUY joins the bid, the SELL the ask
QuotesWithinSpreadWitness ==
  /\ Quoted
  /\ best_ask - best_bid = 2
  /\ \E i \in BuyQuotes : desired[i].price = best_bid
  /\ \E i \in SellQuotes : desired[i].price = best_ask

(* ---------------------------------------------------------------------- *)
(* HedgeEngine                                                             *)
(* ---------------------------------------------------------------------- *)

\* the lighter outcome, the one hedge_once buys
Minor == IF posYes > posNo THEN "no" ELSE "yes"

\* the asks hedge_once reads
NoAsk == BestAsk(orders, extAsk)
YesAsk == BestYesAsk(orders, extYesAsk)
MinorAsk == IF Minor = "no" THEN NoAsk ELSE YesAsk
MajorAsk == IF Minor = "no" THEN YesAsk ELSE NoAsk

\* an open BUY order of the lighter outcome, known by its token or its tag
MinorBuyOpen ==
  \E i \in DOMAIN orders :
     /\ Upper(orders[i].side) = "BUY"
     /\ \/ TokenLookup(orders[i].token) = Minor
        \/ Lower(orders[i].tag) = Minor

\* the step is an invocation of hedge_once that returns
HedgeReturns == pc = "hedge" /\ pc' = "trades" /\ stage' = "hedged"

(* ---------------------------------------------------------------------- *)
\* C11: an invocation of hedge_once on imbalanced positions that finds an
\* open BUY order of the lighter outcome, recognised by the token lookup or
\* by the order's outcome field, issues no order, whatever the difference of
\* the positions.
HedgeSkip ==
  [][(HedgeReturns /\ posYes # posNo /\ MinorBuyOpen)
        => (hedgeCalls' = <<>> /\ orders' = orders)]_vars

\* a difference of 10 * MaxPos shares left alone because of a BUY order that
\* only its token identifies
HedgeSkipWitness ==
  /\ stage = "hedged"
  /\ posYes = 10 * MaxPos /\ posNo = 0
  /\ NoAsk # None /\ YesAsk # None
  /\ \E i \in DOMAIN orders :
        orders[i].side = "BUY" /\ orders[i].token = "tokNo"
                               /\ orders[i].tag = ""
  /\ "skipped" \in hedgeSeen
  /\ hedgeCalls = <<>>

(* ---------------------------------------------------------------------- *)
\* C12: an invocation of hedge_once on imbalanced positions with both asks
\* present and no open BUY order of the lighter outcome issues exactly one
\* order: a BUY of the lighter outcome, of size the difference of the
\* positions, priced askMinor - (askMinor - (1 - askMajor)); positions
\* No 30 / Yes 0 with asks No 0.46 / Yes 0.58 give a BUY of 30 "Yes", 4 cents
\* below the ask.
HedgeAction ==
  [][(HedgeReturns /\ posYes # posNo /\ NoAsk # None /\ YesAsk # None
        /\ ~MinorBuyOpen)
        => /\ Len(hedgeCalls') = 1
           /\ hedgeCalls'[1].side = "BUY"
           /\ hedgeCalls'[1].outcome = Minor
           /\ hedgeCalls'[1].size = Max(posYes, posNo) - Min(posYes, posNo)
           /\ hedgeCalls'[1].price = MinorAsk - (MinorAsk - (100 - MajorAsk))
           /\ orders' = Append(orders, hedgeCalls'[1])
           /\ (posNo = 30 /\ posYes = 0 /\ NoAsk = 46 /\ YesAsk = 58)
                 => /\ hedgeCalls'[1].outcome = "yes"
                    /\ hedgeCalls'[1].size = 30
                    /\ hedgeCalls'[1].price = 58 - 4]_vars

\* the scenario of the specification
HedgeActionWitness ==
  /\ stage = "hedged"
  /\ posNo = 30 /\ posYes = 0
  /\ extAsk = 46 /\ extYesAsk = 58
  /\ Len(hedgeCalls) = 1
  /\ hedgeCalls[1].side = "BUY" /\ hedgeCalls[1].outcome = "yes"
  /\ hedgeCalls[1].size = 30 /\ hedgeCalls[1].price = 54

(* ---------------------------------------------------------------------- *)
\* C13: an invocation of hedge_once on imbalanced positions with the ask of
\* either outcome absent can return normally, and when it returns it has
\* issued no order; an invocation after such a one, with both asks present
\* and no open BUY order of the lighter outcome, issues the hedge order.
HedgeMissingAsk ==
  /\ []((pc = "hedge" /\ posYes # posNo /\ (NoAsk = None \/ YesAsk = None))
          => ENABLED HedgeOnce)
  /\ [][(HedgeReturns /\ posYes # posNo /\ (NoAsk = None \/ YesAsk = None))
          => /\ hedgeCalls' = <<>>
             /\ orders' = orders
             /\ "missing" \in hedgeSeen']_vars
  /\ [][(HedgeReturns /\ "missing" \in hedgeSeen /\ posYes # posNo
           /\ NoAsk # None /\ YesAsk # None /\ ~MinorBuyOpen)
          => Len(hedgeCalls') = 1]_vars

\* a second cycle that hedges after a first one that found no "Yes" ask
HedgeMissingAskWitness ==
  /\ stage = "hedged"
  /\ cycles >= 2
  /\ "missing" \in hedgeSeen
  /\ Len(hedgeCalls) = 1
  /\ caught = "none"

(* ---------------------------------------------------------------------- *)
\* C14: an invocation of hedge_once on equal positions issues no order and
\* reads nothing but the positions (no book, no open orders).
HedgeBalancedNoOp ==
  (stage = "hedged" /\ posYes = posNo) =>
     /\ hedgeCalls = <<>>
     /\ hedgeReads = <<"get_positions">>

\* equal non-zero positions with both asks present and no order open
HedgeBalancedNoOpWitness ==
  /\ stage = "hedged"
  /\ posYes = posNo /\ posNo > 0
  /\ extAsk # None /\ extYesAsk # None
  /\ orders = <<>>
  /\ hedgeReads = <<"get_positions">>
  /\ hedgeSeen = {"balanced"}

(* ---------------------------------------------------------------------- *)
\* C15: in a cycle whose book read returns no best bid or no best ask for
\* "No", no quote is produced, no OrderPort call is issued (no cancel, no
\* placement, no hedge order), no exception is raised, and the loop sleeps
\* SleepSecs and goes back to the loop test, which begins the next cycle
\* when the deadline has not been reached.
EmptyBookWait ==
  /\ []((stage \notin {"none", "begin"}
           /\ (best_bid = None \/ best_ask = None))
          => /\ pc \in {"sleep_empty", "top", "stopped"}
             /\ stage = "book"
             /\ desired = <<>>
             /\ calls = <<>>
             /\ hedgeCalls = <<>>
             /\ hedgeReads = <<>>
             /\ caught = "none")
  /\ [][(pc = "sleep_empty") => (pc' = "top" /\ now' = now + SleepSecs)]_vars
  /\ [][(pc = "top" /\ stage = "book" /\ now < end_ts)
          => pc' = "positions"]_vars

\* back at the loop test, before the deadline, after a cycle that found a
\* bid but no ask
EmptyBookWaitWitness ==
  /\ pc = "top"
  /\ stage = "book"
  /\ best_bid # None /\ best_ask = None
  /\ now = cycleStart + SleepSecs
  /\ now < end_ts
  /\ calls = <<>> /\ hedgeCalls = <<>>

(* ---------------------------------------------------------------------- *)
\* C16: in a cycle in which a placement call has raised, the reconciler has
\* nevertheless issued one placement call for every desired quote, and the
\* cycle has gone on to the hedge and to the trade notification.
PlacementIsolation ==
  (CycleOver /\ \E i \in DOMAIN calls : calls[i].op = "place" /\ ~calls[i].ok)
     => /\ Cardinality({i \in DOMAIN calls : calls[i].op = "place"})
             = Len(desired)
        /\ stage = "notified"

(* ---------------------------------------------------------------------- *)
\* C17: a trade identifier whose send call has raised is in seen_ids, and
\* the cycle in which the send raised has gone through the whole list of
\* trades.
NotifierFailurePolicy ==
  /\ \A id \in sendRaised : id \in seen_ids
  /\ (CycleOver /\ caught = "notify") => trade_i > Len(trades)

(* ---------------------------------------------------------------------- *)
\* C18: every order submitted by buy_no or sell_no, for every offset and
\* every book, has a price between PriceMin and PriceMax.
PlacedPriceInRange ==
  \A i \in DOMAIN orders :
     PriceMin <= orders[i].price /\ orders[i].price <= PriceMax

(* ---------------------------------------------------------------------- *)
\* the price p brought into PriceMin..PriceMax
ClampPrice(p) == Max(PriceMin, Min(PriceMax, p))

\* C19: the price of every desired quote is already clamped to
\* PriceMin..PriceMax, and every order the reconciler submits for a desired
\* quote is submitted at the price the reconciler looked for.
LookedForIsSubmitted ==
  /\ \A k \in DOMAIN desired : desired[k].price = ClampPrice(desired[k].price)
  /\ \A i \in DOMAIN calls :
        (calls[i].op = "place" /\ calls[i].ok) =>
           /\ i - 1 \in DOMAIN desired
           /\ calls[i].price = desired[i - 1].price

(* ---------------------------------------------------------------------- *)
\* C20: no order submitted in a cycle, by the reconciler or by hedge_once,
\* has a size below min_amount.
MinimumSize ==
  /\ \A i \in DOMAIN calls :
        calls[i].op = "place" => calls[i].size >= min_amount
  /\ \A i \in DOMAIN hedgeCalls : hedgeCalls[i].size >= min_amount

(* ---------------------------------------------------------------------- *)
\* C21: two run_robot instances on two markets of one account are each the
\* sole writer of their own orders: a cancel issued by this instance's
\* reconciler leaves the orders of the other instance in place, and a step of
\* the other instance leaves the orders of this instance in place.
SoleWriter ==
  [][ /\ (pc = "cancel" /\ pc' # "cancel") => otherOrders' = otherOrders
      /\ (UNCHANGED progVars) => orders' = orders ]_vars

(* ---------------------------------------------------------------------- *)
\* a cancel_all of the current cycle failed
CancelFailed ==
  \E i \in DOMAIN calls : calls[i].op = "cancel_all" /\ ~calls[i].ok

\* the reconciler of the current cycle has found every desired quote matched
QuietCycle == OrdersRead /\ prices_ok

\* the open orders read in this cycle are exactly one order per desired quote
ExactOrders ==
  /\ OrdersRead
  /\ AllMatched
  /\ Len(open_orders) = Len(desired)

\* C22: after a cancel_all that failed, the cycle goes on to place its
\* quotes, and on the standing book a later cycle finds the open orders to be
\* exactly one order per desired quote.
CancelFailureRepaired ==
  /\ [][(pc = "cancel" /\ CancelFailed' /\ desired # <<>>) => pc' = "place"]_vars
  /\ [](CancelFailed => <>ExactOrders)

\* once a cycle has found every quote matched while more orders rest than
\* quotes are desired, every later cycle finds the same: the run ends at the
\* deadline with the leftover still resting, however late the deadline
StaleLeftoverStays ==
  []((QuietCycle /\ Len(open_orders) > Len(desired))
       => [](OrdersRead => (QuietCycle /\ Len(open_orders) > Len(desired))))

(* ---------------------------------------------------------------------- *)
\* C23: started in an environment with a configuration error, run_robot
\* terminates before its first cycle: no cycle begins, so no step of a cycle
\* meets the error.
ConfigErrorsFatalAtStartup ==
  config # {} => cycles = 0 /\ caught = "none" /\ sendRaised = {}

(* ---------------------------------------------------------------------- *)
\* C24: every cycle, whether it completed, found the book empty or ended in
\* a caught exception, is followed by exactly one sleep of SleepSecs before
\* the loop test: the loop test is reached only from a sleep, each sleep
\* lasts SleepSecs and leads straight to the loop test, nothing else in the
\* cycle waits longer than a venue call, and a cycle begins only at the loop
\* test.
FixedDelay ==
  /\ [][(pc \in {"sleep", "sleep_empty"})
          => (pc' = "top" /\ now' = now + SleepSecs)]_vars
  /\ [][(pc' = "top" /\ pc # "top") => pc \in {"sleep", "sleep_empty"}]_vars
  /\ [][(pc \notin {"sleep", "sleep_empty"}) => now' - now \in 0..NetDelay]_vars
  /\ [][(cycles' # cycles) => (pc = "top" /\ cycleStart' = now)]_vars
  /\ [](pc \in {"sleep", "sleep_empty"} => now - cycleStart \in 0..NetDelay)
  /\ []((pc = "top" /\ cycles > 0)
         => now - cycleStart \in SleepSecs..(SleepSecs + NetDelay))

\* back at the loop test SleepSecs after the start of the second cycle, whose
\* placement raised
FixedDelayWitness ==
  /\ pc = "top"
  /\ cycles = 2
  /\ caught = "place"
  /\ now = cycleStart + SleepSecs

(* ---------------------------------------------------------------------- *)
\* C25: every trade summary of robot_v1, robot_v2 and order_monitor says
\* "Sold" for a trade whose side is BUY in any letter case and "Bought" for
\* a trade with any other side.
LabelInversion ==
  lastMsg # NoMsg
     => lastMsg.text.action
          = IF lastMsg.trade.side \in {"BUY", "buy", "Buy"}
            THEN "Sold" ELSE "Bought"

(* ---------------------------------------------------------------------- *)
\* the quotes that follow from the position and the book read in this cycle
\* and from volume and min_amount
FreshQuotes ==
  (IF volume - no_pos >= min_amount /\ volume - no_pos > 0
   THEN <<[side |-> "BUY", price |-> BuyPrice(best_bid, best_ask),
           size |-> volume - no_pos]>>
   ELSE <<>>)
  \o (IF no_pos >= min_amount /\ no_pos > 0
      THEN <<[side |-> "SELL", price |-> SellPrice(best_bid, best_ask),
              size |-> no_pos]>>
      ELSE <<>>)

\* the OrderPort calls that follow from FreshQuotes and the open orders read
\* in this cycle, as <<operation, side, size>>
FreshCalls ==
  IF \A i \in DOMAIN FreshQuotes :
        \E j \in DOMAIN open_orders :
           /\ Upper(open_orders[j].side) = FreshQuotes[i].side
           /\ open_orders[j].price = FreshQuotes[i].price
  THEN <<>>
  ELSE <<(<<"cancel_all", "", 0>>)>>
         \o [i \in DOMAIN FreshQuotes |->
               <<"place", FreshQuotes[i].side, FreshQuotes[i].size>>]

\* C26: the cancel and placement calls of a cycle are determined by the
\* position, book and open orders read in that cycle and by volume and
\* min_amount: at every moment they are the beginning of FreshCalls, and all
\* of FreshCalls once the reconciler has finished; before the open orders are
\* read no call is issued; a new cycle starts from cleared locals and keeps
\* only the deadline and the seen-trade set.
FreshReadsOnly ==
  /\ [](~OrdersRead => calls = <<>>)
  /\ [](OrdersRead
         => /\ Len(calls) <= Len(FreshCalls)
            /\ \A i \in DOMAIN calls :
                  <<calls[i].op, calls[i].side, calls[i].size>> = FreshCalls[i])
  /\ [](stage \in {"reconciled", "hedged", "notified"}
         => Len(calls) = Len(FreshCalls))
  /\ [][(pc = "top" /\ pc' = "positions")
          => /\ no_pos' = 0 /\ best_bid' = None /\ best_ask' = None
             /\ distance_cents' = 1 /\ desired' = <<>>
             /\ open_orders' = <<>> /\ prices_ok' = TRUE
             /\ place_i' = 1 /\ trades' = <<>> /\ trade_i' = 1
             /\ UNCHANGED <<end_ts, seen_ids, volume, min_amount>>]_vars

\* the second cycle, with a trade already seen, has cancelled and placed its
\* quotes
FreshReadsOnlyWitness ==
  /\ cycles = 2
  /\ seen_ids # {}
  /\ stage = "reconciled"
  /\ Len(calls) >= 2
  /\ calls[1].op = "cancel_all"

(* ---------------------------------------------------------------------- *)
\* C27: on every book with best_bid < best_ask, whatever the spread, the BUY
\* quote of robot_v1 is priced exactly one cent below the best ask and its
\* SELL quote exactly one cent above the best bid.
OneCentQuotes ==
  (Quoted /\ best_bid < best_ask)
     => /\ \A i \in BuyQuotes : desired[i].price = best_ask - 1
        /\ \A i \in SellQuotes : desired[i].price = best_bid + 1

(* ---------------------------------------------------------------------- *)
\* the number of invocations of hedge_once in the current cycle: each begins
\* with get_positions
HedgeInvocations ==
  Cardinality({i \in DOMAIN hedgeReads : hedgeReads[i] = "get_positions"})

RECURSIVE OpenBuySize(_)
\* the total size of the open BUY orders on No in a list of orders
OpenBuySize(ords) ==
  IF ords = <<>> THEN 0
  ELSE (IF Head(ords).outcome = "no" /\ Upper(Head(ords).side) = "BUY"
        THEN Head(ords).size ELSE 0)
       + OpenBuySize(Tail(ords))

\* C29: with fills happening between any two steps of the bot and every
\* cancel succeeding, the No position plus the total size of the bot's open
\* BUY orders on No never exceeds volume.
InventoryCeiling ==
  posNo + OpenBuySize(orders) <= volume

(* ---------------------------------------------------------------------- *)
\* C30: on a book that others leave unchanged, with a constant position, no
\* fills and every cancel and placement succeeding, robot_v1 reaches a cycle
\* whose reconciler issues no OrderPort call, and from that cycle on no cycle
\* issues one.
StaticConvergence ==
  /\ <>QuietCycle
  /\ [](QuietCycle => [](calls = <<>>))

\* a quiet cycle, after cycles that replaced the quotes, in which the best
\* bid read from the book is the bot's own BUY order
StaticConvergenceWitness ==
  /\ QuietCycle
  /\ cycles >= 4
  /\ calls = <<>>
  /\ best_bid > extBid
  /\ \E j \in DOMAIN open_orders :
        /\ Upper(open_orders[j].side) = "BUY"
        /\ open_orders[j].price = best_bid

(* ---------------------------------------------------------------------- *)
\* an open order read in this cycle rests on the Yes token and has the side
\* (ignoring case) and the price of quote q
MatchedOnYes(q) ==
  \E j \in DOMAIN open_orders :
     /\ open_orders[j].outcome = "yes"
     /\ open_orders[j].token = "tokYes"
     /\ Upper(open_orders[j].side) = q.side
     /\ open_orders[j].price = q.price

\* C31: the open orders read by a cycle are those of both tokens, and a
\* desired quote for No counts as found when an open order on the Yes token
\* has its side and price: in a cycle whose every quote has such an order,
\* or an order on No, of its side and price, the reconciler issues no cancel
\* and no placement.
TokenBlindMatching ==
  /\ [][(pc = "orders" /\ pc' \in {"hedge", "cancel"})
          => open_orders' = orders]_vars
  /\ []((OrdersRead /\ desired # <<>>
            /\ \A i \in DOMAIN desired :
                  MatchedOnYes(desired[i]) \/ Matched(desired[i]))
         => (prices_ok /\ calls = <<>>))

\* a cycle with a BUY quote for No, no open order on No at all and a BUY on
\* Yes at the quote's price has gone past the reconciler without a call
TokenBlindMatchingWitness ==
  /\ pc = "trades"
  /\ Len(desired) = 1
  /\ desired[1].side = "BUY"
  /\ MatchedOnYes(desired[1])
  /\ \A j \in DOMAIN open_orders : open_orders[j].outcome = "yes"
  /\ prices_ok
  /\ calls = <<>>

(* ---------------------------------------------------------------------- *)
\* a BUY order on No is open on the venue
NoBuyOpen ==
  \E i \in DOMAIN orders :
     Upper(orders[i].side) = "BUY" /\ orders[i].outcome = "no"

\* the reconciler of this cycle has placed its BUY quote
BuyQuotePlaced ==
  \E i \in DOMAIN calls :
     calls[i].op = "place" /\ calls[i].ok /\ calls[i].side = "BUY"

\* C32: in a cycle with more Yes than No, hedge_once places nothing when a BUY
\* order on No is open at that moment, the BUY quote the reconciler has just
\* placed or found included; it places its BUY on No only when no BUY on No
\* is open after the reconciler.
HedgeGuardBlind ==
  [][(HedgeReturns /\ posYes > posNo)
        => /\ (NoBuyOpen \/ BuyQuotePlaced)
                 => (hedgeCalls' = <<>> /\ orders' = orders)
           /\ (hedgeCalls' # <<>>)
                 => (~NoBuyOpen /\ ~BuyQuotePlaced
                      /\ hedgeCalls'[1].side = "BUY"
                      /\ hedgeCalls'[1].outcome = "no")]_vars

\* hedge_once has left an imbalance of 10 * MaxPos alone in the cycle in
\* which the reconciler placed its BUY quote
HedgeGuardBlindWitness ==
  /\ stage = "hedged"
  /\ cycles = 1
  /\ posYes = 10 * MaxPos /\ posNo = 0
  /\ NoAsk # None /\ YesAsk # None
  /\ BuyQuotePlaced
  /\ hedgeSeen = {"skipped"}
  /\ hedgeCalls = <<>>

(* ---------------------------------------------------------------------- *)
\* C33: the BUY that hedge_once places is priced at 1 - askMajor, not below
\* 0.01, whatever the ask of the lighter outcome; when the two asks sum to
\* 1.00 or less that price is at or above the ask of the lighter outcome.
HedgePriceIsComplement ==
  [][(HedgeReturns /\ hedgeCalls' # <<>>)
        => /\ hedgeCalls'[1].price = Max(PriceMin, 100 - MajorAsk)
           /\ (MajorAsk + MinorAsk <= 100)
                 => hedgeCalls'[1].price >= MinorAsk]_vars

\* a hedge BUY priced above the ask of the outcome it buys
HedgePriceIsComplementWitness ==
  /\ stage = "hedged"
  /\ Len(hedgeCalls) = 1
  /\ MajorAsk + MinorAsk < 100
  /\ hedgeCalls[1].outcome = Minor
  /\ hedgeCalls[1].price = 100 - MajorAsk
  /\ hedgeCalls[1].price > MinorAsk

(* ---------------------------------------------------------------------- *)
\* C34: on every book with best_bid <= best_ask the BUY price of the cycle
\* is strictly below its SELL price: the SELL price exceeds the BUY price by
\* 2 * distance - spread, which is 1 or 2 cents, and a cycle that desires
\* both quotes desires them at these prices.
NoSelfCross ==
  (Quoted /\ best_bid <= best_ask)
     => /\ SellPrice(best_bid, best_ask) - BuyPrice(best_bid, best_ask)
             = 2 * distance_cents - (best_ask - best_bid)
        /\ 2 * distance_cents - (best_ask - best_bid) \in {1, 2}
        /\ \A i \in BuyQuotes : \A j \in SellQuotes :
              /\ desired[i].price < desired[j].price
              /\ desired[j].price - desired[i].price
                   = 2 * distance_cents - (best_ask - best_bid)

\* both quotes on a spread of five cents, one cent apart
NoSelfCrossWitness ==
  /\ Quoted
  /\ best_ask - best_bid = 5
  /\ BuyQuotes # {} /\ SellQuotes # {}
  /\ \A i \in BuyQuotes : \A j \in SellQuotes :
        desired[j].price = desired[i].price + 1

(* ---------------------------------------------------------------------- *)
\* a cancel_all has been issued in the current cycle
CancelIssued == \E i \in DOMAIN calls : calls[i].op = "cancel_all"

\* every open order read in this cycle is still on the venue
OpenOrdersRest ==
  \A j \in DOMAIN open_orders :
     \E k \in DOMAIN orders : orders[k] = open_orders[j]

\* C35: a cycle in which no quote is desired, or in which every desired quote
\* has an open order of its side and price, issues no cancel and no
\* placement, whatever orders are open, and every open order it read is
\* still resting afterwards; a cancel is issued only in a cycle with a
\* desired quote that has no such order.
CancelOnlyWhenMissing ==
  /\ []((OrdersRead /\ AllMatched)
          => (prices_ok /\ calls = <<>> /\ OpenOrdersRest))
  /\ [](CancelIssued
          => \E i \in DOMAIN desired : ~Matched(desired[i]))

\* a cycle without any desired quote has left the order it found resting
CancelOnlyWhenMissingWitness ==
  /\ pc = "trades"
  /\ Quoted
  /\ desired = <<>>
  /\ open_orders # <<>>
  /\ orders = open_orders
  /\ calls = <<>>

(* ---------------------------------------------------------------------- *)
\* the steps whose exception ends the cycle before get_recent_trades returns
EarlySteps == {"positions", "book", "orders", "cancel", "place", "hedge",
               "trades"}

\* C36: a cycle that found the book empty or ended in a caught exception has
\* made no call of send_telegram_message, returned or raised, and has left
\* the seen set as it was (stated for the first cycle, which begins with an
\* empty seen set and no send).
SilentWhenAborted ==
  (cycles = 1 /\ (pc = "sleep_empty" \/ (pc = "sleep" /\ caught # "none")))
     => /\ seen_ids = {}
        /\ sendRaised = {}
        /\ \A id \in TradeIds : sendOk[id] = 0

\* what does hold of the notifier's place in the cycle: get_recent_trades is
\* called, and trades are notified, only in a cycle whose book had both sides
\* and whose reconciler and hedge_once returned without an exception; the
\* seen set and the send history change only in the notifier step; a cycle
\* that found the book empty, or that an exception ended before
\* get_recent_trades returned, has fetched no trade.
NotifyOnlyAfterHedge ==
  /\ [](pc \in {"trades", "notify"}
         => /\ stage = "hedged"
            /\ best_bid # None /\ best_ask # None
            /\ caught = "none")
  /\ [][(seen_ids' # seen_ids \/ sendOk' # sendOk \/ sendRaised' # sendRaised
           \/ reached' # reached \/ lastMsg' # lastMsg)
          => (pc = "notify" /\ trade_i <= Len(trades))]_vars
  /\ [][(trades' # <<>> /\ trades' # trades) => pc = "trades"]_vars
  /\ []((pc = "sleep_empty" \/ (pc = "sleep" /\ caught \in EarlySteps))
         => trades = <<>>)
  /\ [](\A id \in TradeIds :
           (sendOk[id] > 0 \/ id \in sendRaised \/ id \in seen_ids)
              => reached[id] > 0)

(* ---------------------------------------------------------------------- *)
\* C37: run_robot returns only at the loop test, once the deadline has been
\* reached, and the return issues no cancel and no placement: the orders on
\* the venue are those of the end of the last cycle, and nothing happens to
\* them once the loop has stopped.
StopLeavesVenue ==
  /\ [][(pc' = "stopped" /\ pc # "stopped")
          => /\ pc = "top"
             /\ now >= end_ts
             /\ orders' = orders
             /\ calls' = calls
             /\ hedgeCalls' = hedgeCalls]_vars
  /\ [][pc = "stopped" => UNCHANGED vars]_vars

\* stopped with the quotes placed by the last cycle still resting
StopLeavesVenueWitness ==
  /\ pc = "stopped"
  /\ cycles >= 1
  /\ \E i \in DOMAIN calls :
        /\ calls[i].op = "place" /\ calls[i].ok
        /\ \E k \in DOMAIN orders :
              /\ orders[k].side = calls[i].side
              /\ orders[k].price = calls[i].price
              /\ orders[k].size = calls[i].size

(* ---------------------------------------------------------------------- *)
RECURSIVE SendsReturned(_)
\* the number of send calls that returned, over the identifiers in S
SendsReturned(S) ==
  IF S = {} THEN 0
  ELSE LET id == CHOOSE x \in S : TRUE
       IN sendOk[id] + SendsReturned(S \ {id})

\* C38: the seen set never loses an element; a trade identifier is in it if
\* and only if a send for that identifier has returned; the number of sends
\* that have returned is the number of its elements.
SeenSetInvariant ==
  /\ [][seen_ids \subseteq seen_ids']_vars
  /\ [](\A id \in TradeIds : id \in seen_ids <=> sendOk[id] > 0)
  /\ [](SendsReturned(TradeIds) = Cardinality(seen_ids))

\* every trade seen, one of them only at the second attempt
SeenSetInvariantWitness ==
  /\ seen_ids = TradeIds
  /\ sendRaised # {}
  /\ \A id \in TradeIds : sendOk[id] = 1

====
